---- MODULE Spec2Model ----
(***************************************************************************)
(* The session orchestrator of stellar-passkey: the useStellar hook        *)
(* (src/src/hooks/useStellar/useStellar.ts), the durable store it keeps    *)
(* in localStorage, and the ledger it talks to.                            *)
(*                                                                         *)
(* An async handler is one action per run of synchronous code: from its    *)
(* call to its first await, and from each await's settlement to the next   *)
(* await or to its return.  Handlers read `deployee` from the closure of   *)
(* the render that created them, so an invocation keeps the value that     *)
(* was current when it was called; bundlerKey is a ref and is read live.   *)
(***************************************************************************)
EXTENDS Integers, FiniteSets, Sequences, TLC

VARIABLES
    loadingDeployee,   \* useState(true),  useStellar.ts:57
    deployee,          \* useState(null),  useStellar.ts:58
    bundlerKey,        \* useRef(null),    useStellar.ts:59
    loadingRegister,   \* useState(false), useStellar.ts:60
    loadingSign,       \* useState(false), useStellar.ts:61
    contractData,      \* useState(null),  useStellar.ts:62
    localStorage,      \* the three durable keys sp:bundler, sp:deployee, sp:id
    initPc,            \* position of the mount effect's init()
    reg,               \* the onRegister invocations, one record per slot
    sign,              \* the onSign invocations, one record per slot
    registerOutcome,   \* how the onRegister invocation that returned last ended
    signOutcome,       \* how the onSign invocation that returned last ended
    presign,           \* what prepareSign has returned in this session
    keysMade,          \* how many keypairs Keypair.random() has produced
    funded,            \* the keypairs the faucet has been called for
    txnsBuilt,         \* how many envelopes handleVoteBuild has produced
    ledgerSeq,         \* the ledger's current sequence number
    accepted,          \* the envelopes the ledger has accepted, one vote each
    resetSince,        \* reset() has run since sp:bundler was last written
    peer,              \* the useStellar() instance of SignOutButton, part_001:8
    votes,             \* a call of onVotes(bundlerKey, deployee), useStellar.ts:47
    env,               \* ENV.ENV, read by the debug routes
    storage,           \* global.__redisMockStorage, part_002:23
    now,               \* Date.now() of the server, in milliseconds
    response,          \* the response a debug route sent last
    call               \* the call of a method of redisMock that returned last

vars == <<loadingDeployee, deployee, bundlerKey, loadingRegister, loadingSign,
          contractData, localStorage, initPc, reg, sign, registerOutcome,
          signOutcome, presign, keysMade,
          funded, txnsBuilt, ledgerSeq, accepted, resetSince,
          peer, votes, env, storage, now, response, call>>

\* the server side: the debug routes and the key-value mock
debugApi == <<env, storage, now, response, call>>

\* what the provider's hook instance never touches
others == <<peer, votes, env, storage, now, response, call>>

session == <<loadingDeployee, deployee, bundlerKey, loadingRegister,
             loadingSign, contractData>>

invocations == <<reg, sign, registerOutcome, signOutcome>>

\* the browser side: both hook instances, the store, the ledger they use
browser == <<loadingDeployee, deployee, bundlerKey, loadingRegister,
             loadingSign, contractData, localStorage, initPc, reg, sign,
             registerOutcome, signOutcome, presign, keysMade, funded,
             txnsBuilt, ledgerSeq, accepted, resetSince, peer, votes>>

ledger == <<keysMade, funded, txnsBuilt, ledgerSeq, accepted>>

----------------------------------------------------------------------------
(* Bounds of the model. *)

MaxKeys == 2        \* keypairs Keypair.random() may produce
MaxCreds == 2       \* distinct passkey credentials
MaxCalls == 2       \* invocations of one handler that may be in flight at once
MaxTxn == 2         \* transaction envelopes handleVoteBuild may produce
MaxLedger == 1      \* ledger sequence numbers
MaxTicks == 2       \* half seconds of server time that are told apart

----------------------------------------------------------------------------
(* Values.  Every value is a pair <<tag, n>> so that any two compare. *)

Null == <<"null", 0>>

Keys == 1 .. MaxKeys
Slots == 1 .. MaxCalls
Txns == 1 .. MaxTxn

\* Keypair.random(): the n-th keypair produced
Keypair(n) == <<"keypair", n>>

\* Keypair.secret(): the S... seed string of a keypair
secret(kp) == <<"S", kp[2]>>

\* Keypair.publicKey(): the G... address of a keypair
publicKey(kp) == <<"G", kp[2]>>

\* a stored string that is no valid seed
MalformedSecret == <<"garbage", 0>>

\* Keypair.fromSecret(): decodes a seed; throws on anything else
fromSecretThrows(s) == s[1] # "S"

fromSecret(s) == Keypair(s[2])

\* JavaScript truthiness of a string | null read from storage or state
Truthy(v) == v # Null

----------------------------------------------------------------------------
(* The durable store: localStorage under the keys the hook uses. *)

EmptyStorage == [k \in {"sp:bundler", "sp:deployee", "sp:id"} |-> Null]

getStoredDeployee == localStorage["sp:deployee"]

getStoredBundler == localStorage["sp:bundler"]

setItem(store, key, value) == [store EXCEPT ![key] = value]

removeItem(store, key) == [store EXCEPT ![key] = Null]

----------------------------------------------------------------------------
(* Invocation records. *)

InFlight(calls) == {s \in Slots : calls[s].pc # "idle"}

\* a new invocation takes the lowest free slot
FreeSlot(calls, s) ==
    /\ calls[s].pc = "idle"
    /\ \A t \in Slots : t < s => calls[t].pc # "idle"

NoResponse == [id |-> 0, attestation |-> "none"]

NoPresign == [authTxn |-> 0, lastLedger |-> 0]

\* a slot with no invocation.  Of an invocation in flight, `sawDeploy` tells
\* whether an invocation that was in flight together with it has called
\* handleDeploy, `deploys` how often it has called handleDeploy itself and
\* `sends` how often it has called handleVoteSend.
IdleRegister ==
    [pc |-> "idle", registerRes |-> NoResponse, sawDeploy |-> FALSE,
     deploys |-> 0]

IdleSign == [pc |-> "idle", deployee |-> Null, params |-> NoPresign, sends |-> 0]

\* what the promise an async handler returned settles with.  onRegister and
\* onSign return nothing and their catch blocks log without rethrowing
\* (lines 81-85, 110-114): the promise is fulfilled with undefined however
\* the invocation ended.
Settlement(outcome) == <<"fulfilled", "undefined">>

\* SignOutButton is not rendered: its hook instance does not exist
Unmounted ==
    [initPc |-> "unmounted", loadingDeployee |-> TRUE, deployee |-> Null,
     bundlerKey |-> Null]

\* no call of onVotes
IdleVotes ==
    [pc |-> "idle", bundlerKey |-> Null, deployee |-> Null, result |-> Null,
     queries |-> 0]

\* no response sent yet
NoHttp == [status |-> 0, kind |-> "none", value |-> Null, ttl |-> 0,
           listed |-> {}, totalKeys |-> 0]

\* no method of the mock has been called, or its result has been taken
NoCall == [op |-> "none", key |-> "", value |-> Null, number |-> 0,
           listed |-> {}, removed |-> {}]

\* a server in development mode with an empty mock, no request served
DebugIdle ==
    /\ env = "development"
    /\ storage = {}
    /\ now = 0
    /\ response = NoHttp
    /\ call = NoCall

----------------------------------------------------------------------------
(* The state after useStellar() has rendered once and before its mount     *)
(* effect has run.  The store is what an earlier page load left: nothing,  *)
(* or an sp:bundler entry that is no seed.                                 *)

HookInit ==
    /\ loadingDeployee = TRUE
    /\ deployee = Null
    /\ bundlerKey = Null
    /\ loadingRegister = FALSE
    /\ loadingSign = FALSE
    /\ contractData = Null
    /\ localStorage \in {EmptyStorage,
                         setItem(EmptyStorage, "sp:bundler", MalformedSecret)}
    /\ initPc = "mount"
    /\ reg = [s \in Slots |-> IdleRegister]
    /\ sign = [s \in Slots |-> IdleSign]
    /\ registerOutcome = "none"
    /\ signOutcome = "none"
    /\ presign = {}
    /\ keysMade = 0
    /\ funded = {}
    /\ txnsBuilt = 0
    /\ ledgerSeq = 0
    /\ accepted = {}
    /\ resetSince = FALSE

Init ==
    /\ HookInit
    /\ peer = Unmounted
    /\ votes = IdleVotes
    /\ DebugIdle

----------------------------------------------------------------------------
(* init(), the mount effect: useStellar.ts:123-150 *)

\* a hook that never looks at the stored seed
UseStoredNever(storedBundler) == FALSE

\* line 128: if (storedBundler)
UseStored(storedBundler) == Truthy(storedBundler)

\* lines 137-140: load the stored deployee into the session
LoadStoredDeployee ==
    deployee' = IF Truthy(getStoredDeployee) THEN getStoredDeployee ELSE deployee

\* an init that never leaves the loading state
InitFinallyStillLoading ==
    /\ initPc' = "done"
    /\ UNCHANGED loadingDeployee

\* lines 141-146: catch logs, finally ends the loading state
InitFinally ==
    /\ loadingDeployee' = FALSE
    /\ initPc' = "done"

\* a hook that calls the faucet before it persists the seed
initFreshFundFirst(wrote) ==
    LET kp == Keypair(keysMade + 1) IN
    /\ keysMade < MaxKeys
    /\ keysMade' = keysMade + 1
    /\ bundlerKey' = kp
    /\ funded' = funded \cup {kp}
    /\ initPc' = "friendbot"
    /\ UNCHANGED <<loadingDeployee, deployee, localStorage, resetSince>>

\* lines 131-134: a new keypair, persisted, then the faucet call is issued
\* and awaited; a throwing setItem (quota) goes to the catch
initFresh(wrote) ==
    LET kp == Keypair(keysMade + 1) IN
    /\ keysMade < MaxKeys
    /\ keysMade' = keysMade + 1
    /\ bundlerKey' = kp
    /\ IF wrote
       THEN /\ localStorage' = setItem(localStorage, "sp:bundler", secret(kp))
            /\ resetSince' = FALSE
            /\ funded' = funded \cup {kp}
            /\ initPc' = "friendbot"
            /\ UNCHANGED <<loadingDeployee, deployee>>
       ELSE /\ InitFinally
            /\ UNCHANGED <<localStorage, resetSince, funded, deployee>>

\* a hook that falls back to a new keypair when the stored seed is no seed
initStoredRecovers ==
    IF fromSecretThrows(getStoredBundler)
    THEN /\ keysMade < MaxKeys
         /\ keysMade' = keysMade + 1
         /\ bundlerKey' = Keypair(keysMade + 1)
         /\ localStorage' =
                setItem(localStorage, "sp:bundler", secret(Keypair(keysMade + 1)))
         /\ resetSince' = FALSE
         /\ LoadStoredDeployee
         /\ InitFinally
         /\ UNCHANGED funded
    ELSE /\ bundlerKey' = fromSecret(getStoredBundler)
         /\ LoadStoredDeployee
         /\ InitFinally
         /\ UNCHANGED <<localStorage, resetSince, keysMade, funded>>

\* a hook that makes a new keypair although a seed is stored
initStoredRandom ==
    /\ keysMade < MaxKeys
    /\ keysMade' = keysMade + 1
    /\ bundlerKey' = Keypair(keysMade + 1)
    /\ localStorage' =
           setItem(localStorage, "sp:bundler", secret(Keypair(keysMade + 1)))
    /\ LoadStoredDeployee
    /\ InitFinally
    /\ UNCHANGED <<resetSince, funded>>

\* lines 128-129: the keypair is rebuilt from the stored seed
initStored ==
    /\ IF fromSecretThrows(getStoredBundler)
       THEN UNCHANGED <<bundlerKey, deployee>>
       ELSE /\ bundlerKey' = fromSecret(getStoredBundler)
            /\ LoadStoredDeployee
    /\ InitFinally
    /\ UNCHANGED <<localStorage, resetSince, keysMade, funded>>

init ==
    /\ UNCHANGED others
    /\ initPc = "mount"
    /\ IF UseStored(getStoredBundler)
       THEN initStored
       ELSE \E wrote \in BOOLEAN : initFresh(wrote)
    /\ UNCHANGED <<loadingRegister, loadingSign, contractData, invocations,
                   presign, txnsBuilt, ledgerSeq, accepted>>

\* line 134 settles: the faucet funded the account, or refused
init_friendbot(granted) ==
    /\ UNCHANGED others
    /\ initPc = "friendbot"
    /\ IF granted THEN LoadStoredDeployee ELSE UNCHANGED deployee
    /\ InitFinally
    /\ UNCHANGED <<bundlerKey, loadingRegister, loadingSign, contractData,
                   localStorage, invocations, presign, ledger, resetSince>>

----------------------------------------------------------------------------
(* reset(): useStellar.ts:117-121 *)

\* a reset that forgets the credential identifier
resetKeepsId ==
    /\ UNCHANGED others
    /\ initPc # "mount"
    /\ localStorage' =
           removeItem(removeItem(localStorage, "sp:deployee"), "sp:bundler")
    /\ resetSince' = TRUE
    /\ UNCHANGED <<session, initPc, invocations, presign, ledger>>

reset ==
    /\ UNCHANGED others
    /\ initPc # "mount"
    /\ localStorage' =
           removeItem(removeItem(removeItem(localStorage, "sp:deployee"),
                                 "sp:bundler"), "sp:id")
    /\ resetSince' = TRUE
    /\ UNCHANGED <<session, initPc, invocations, presign, ledger>>

----------------------------------------------------------------------------
(* A page reload: the hook is constructed anew (useStellar.ts:57-62), every *)
(* invocation of the old page is gone, the store and the ledger stay.      *)

Reload ==
    /\ initPc # "mount"
    /\ loadingDeployee' = TRUE
    /\ deployee' = Null
    /\ bundlerKey' = Null
    /\ loadingRegister' = FALSE
    /\ loadingSign' = FALSE
    /\ contractData' = Null
    /\ initPc' = "mount"
    /\ reg' = [s \in Slots |-> IdleRegister]
    /\ sign' = [s \in Slots |-> IdleSign]
    /\ registerOutcome' = "none"
    /\ signOutcome' = "none"
    /\ presign' = {}
    /\ peer' = Unmounted
    /\ UNCHANGED <<localStorage, ledger, resetSince, votes, debugApi>>

-----------------------------------------------------------------------

----------------------------------------------------------------------------
(* The passkey credentials a registration ceremony may hand to onRegister, *)
(* and their derivation (@/app/libs/stellar getPublicKeys, spec 4.3).      *)

\* a ceremony that went well, for each credential; and for the first
\* credential a response without the attested key and one that cannot be
\* decoded
RegistrationResponses ==
    [id : 1 .. MaxCreds, attestation : {"valid"}]
        \cup [id : {1}, attestation : {"noPublicKey", "garbled"}]

\* the response of a ceremony that went well, for the first credential
ValidResponse == [id |-> 1, attestation |-> "valid"]

\* the response of a credential from which no contract salt is derived
NoSaltResponse == [id |-> MaxCreds + 1, attestation |-> "noSalt"]

\* derivation throws on a response it cannot decode
getPublicKeysThrows(registerRes) == registerRes.attestation = "garbled"

\* a pure function of the credential: the same response, the same pair
getPublicKeys(registerRes) ==
    [contractSalt |-> IF registerRes.attestation = "noSalt"
                      THEN Null
                      ELSE <<"salt", registerRes.id>>,
     publicKey |-> IF registerRes.attestation = "valid"
                   THEN <<"pk", registerRes.id>>
                   ELSE Null]

\* the address the ledger deploys the account contract at (spec 4.4: derived
\* from the salt, the same address when it is deployed again)
handleDeploy(bundler, contractSalt, pk) == <<"C", contractSalt[2]>>

----------------------------------------------------------------------------
(* onRegister(registerRes): useStellar.ts:64-86 *)

\* a hook without the early return
RegisterGuardNever(d) == FALSE

\* line 66: if (deployee) return
RegisterGuard(d) == Truthy(d)

\* lines 81-85: catch logs, finally clears the flag; the promise resolves
RegisterFinally(s, outcome) ==
    /\ loadingRegister' = FALSE
    /\ reg' = [reg EXCEPT ![s] = IdleRegister]
    /\ registerOutcome' = outcome

\* lines 64-70: the call, up to the await of getPublicKeys
onRegister(s, registerRes) ==
    /\ UNCHANGED others
    /\ initPc # "mount"
    /\ FreeSlot(reg, s)
    /\ IF RegisterGuard(deployee)
       THEN /\ registerOutcome' = "skipped"
            /\ UNCHANGED <<reg, loadingRegister, localStorage>>
       ELSE \E wrote \in BOOLEAN :
              IF wrote
              THEN /\ loadingRegister' = TRUE
                   /\ localStorage' =
                          setItem(localStorage, "sp:id", <<"id", registerRes.id>>)
                   /\ reg' = [reg EXCEPT ![s] =
                                 [pc |-> "getPublicKeys",
                                  registerRes |-> registerRes,
                                  sawDeploy |-> \E t \in Slots :
                                      reg[t].pc = "handleDeploy",
                                  deploys |-> 0]]
                   /\ UNCHANGED registerOutcome
              ELSE \* setStoredCredentialId threw: catch, finally
                   /\ loadingRegister' = FALSE
                   /\ registerOutcome' = "failed"
                   /\ UNCHANGED <<reg, localStorage>>
    /\ UNCHANGED <<loadingDeployee, deployee, bundlerKey, loadingSign,
                   contractData, initPc, sign, signOutcome, presign, ledger,
                   resetSince>>

\* a hook that deploys with whatever derivation returned
onRegister_getPublicKeysUnchecked(s) ==
    /\ UNCHANGED others
    /\ reg[s].pc = "getPublicKeys"
    /\ IF \/ getPublicKeysThrows(reg[s].registerRes)
          \/ ~Truthy(bundlerKey)
       THEN RegisterFinally(s, "failed")
       ELSE /\ reg' = [t \in Slots |->
                          IF t = s
                          THEN [reg[s] EXCEPT !.pc = "handleDeploy",
                                              !.deploys = @ + 1]
                          ELSE IF reg[t].pc = "idle" THEN reg[t]
                          ELSE [reg[t] EXCEPT !.sawDeploy = TRUE]]
            /\ UNCHANGED <<loadingRegister, registerOutcome>>
    /\ UNCHANGED <<loadingDeployee, deployee, bundlerKey, loadingSign,
                   contractData, localStorage, initPc, sign, signOutcome,
                   presign, ledger, resetSince>>

\* lines 70-77: getPublicKeys settles; the checks; handleDeploy is called
onRegister_getPublicKeys(s) ==
    /\ UNCHANGED others
    /\ reg[s].pc = "getPublicKeys"
    /\ LET derived == getPublicKeys(reg[s].registerRes) IN
       IF \/ getPublicKeysThrows(reg[s].registerRes)
          \/ ~Truthy(bundlerKey)
          \/ ~Truthy(derived.contractSalt)
          \/ ~Truthy(derived.publicKey)
       THEN RegisterFinally(s, "failed")
       ELSE /\ reg' = [t \in Slots |->
                          IF t = s
                          THEN [reg[s] EXCEPT !.pc = "handleDeploy",
                                              !.deploys = @ + 1]
                          ELSE IF reg[t].pc = "idle" THEN reg[t]
                          ELSE [reg[t] EXCEPT !.sawDeploy = TRUE]]
            /\ UNCHANGED <<loadingRegister, registerOutcome>>
    /\ UNCHANGED <<loadingDeployee, deployee, bundlerKey, loadingSign,
                   contractData, localStorage, initPc, sign, signOutcome,
                   presign, ledger, resetSince>>

\* a hook that deploys again when the ledger rejected the deployment
onRegister_handleDeployRetries(s, deployed) ==
    /\ UNCHANGED others
    /\ reg[s].pc = "handleDeploy"
    /\ LET derived == getPublicKeys(reg[s].registerRes)
           address == handleDeploy(bundlerKey, derived.contractSalt,
                                   derived.publicKey) IN
       IF deployed
       THEN \E wrote \in BOOLEAN :
              IF wrote
              THEN /\ localStorage' = setItem(localStorage, "sp:deployee", address)
                   /\ deployee' = address
                   /\ RegisterFinally(s, "ok")
              ELSE /\ RegisterFinally(s, "failed")
                   /\ UNCHANGED <<localStorage, deployee>>
       ELSE IF reg[s].deploys < 2
            THEN /\ reg' = [reg EXCEPT ![s].deploys = @ + 1]
                 /\ UNCHANGED <<loadingRegister, registerOutcome,
                                localStorage, deployee>>
            ELSE /\ RegisterFinally(s, "failed")
                 /\ UNCHANGED <<localStorage, deployee>>
    /\ UNCHANGED <<loadingDeployee, bundlerKey, loadingSign, contractData,
                   initPc, sign, signOutcome, presign, ledger, resetSince>>

\* a hook that sets the deployee in memory before it persists it
onRegister_handleDeployEager(s, deployed) ==
    /\ UNCHANGED others
    /\ reg[s].pc = "handleDeploy"
    /\ LET derived == getPublicKeys(reg[s].registerRes)
           address == handleDeploy(bundlerKey, derived.contractSalt,
                                   derived.publicKey) IN
       IF deployed
       THEN \E wrote \in BOOLEAN :
              IF wrote
              THEN /\ localStorage' = setItem(localStorage, "sp:deployee", address)
                   /\ deployee' = address
                   /\ RegisterFinally(s, "ok")
              ELSE /\ RegisterFinally(s, "failed")
                   /\ deployee' = address
                   /\ UNCHANGED localStorage
       ELSE /\ RegisterFinally(s, "failed")
            /\ UNCHANGED <<localStorage, deployee>>
    /\ UNCHANGED <<loadingDeployee, bundlerKey, loadingSign, contractData,
                   initPc, sign, signOutcome, presign, ledger, resetSince>>

\* lines 73-85: handleDeploy settles: the ledger deployed, or rejected
onRegister_handleDeploy(s, deployed) ==
    /\ UNCHANGED others
    /\ reg[s].pc = "handleDeploy"
    /\ LET derived == getPublicKeys(reg[s].registerRes)
           address == handleDeploy(bundlerKey, derived.contractSalt,
                                   derived.publicKey) IN
       IF deployed
       THEN \E wrote \in BOOLEAN :
              IF wrote
              THEN /\ localStorage' = setItem(localStorage, "sp:deployee", address)
                   /\ deployee' = address
                   /\ RegisterFinally(s, "ok")
              ELSE /\ RegisterFinally(s, "failed")
                   /\ UNCHANGED <<localStorage, deployee>>
       ELSE /\ RegisterFinally(s, "failed")
            /\ UNCHANGED <<localStorage, deployee>>
    /\ UNCHANGED <<loadingDeployee, bundlerKey, loadingSign, contractData,
                   initPc, sign, signOutcome, presign, ledger, resetSince>>

----------------------------------------------------------------------------
(* prepareSign(): useStellar.ts:88-99.  handleVoteBuild (@/app/libs/       *)
(* vote_build, spec 4.5 build) returns a new envelope that is valid up to  *)
(* the ledger sequence lastLedger.                                         *)

handleVoteBuild(n) == [authTxn |-> n, lastLedger |-> ledgerSeq]

\* a prepareSign that shows the signing spinner while it builds
prepareSignSetsLoading ==
    /\ UNCHANGED others
    /\ initPc # "mount"
    /\ Truthy(bundlerKey)
    /\ Truthy(deployee)
    /\ txnsBuilt < MaxTxn
    /\ txnsBuilt' = txnsBuilt + 1
    /\ presign' = presign \cup {handleVoteBuild(txnsBuilt + 1)}
    /\ loadingSign' = TRUE
    /\ UNCHANGED <<loadingDeployee, deployee, bundlerKey, loadingRegister,
                   contractData, localStorage, initPc, invocations, keysMade,
                   funded, ledgerSeq, accepted, resetSince>>

prepareSign ==
    /\ UNCHANGED others
    /\ initPc # "mount"
    /\ Truthy(bundlerKey)          \* line 90, else it throws
    /\ Truthy(deployee)            \* line 91, else it throws
    /\ txnsBuilt < MaxTxn
    /\ txnsBuilt' = txnsBuilt + 1
    /\ presign' = presign \cup {handleVoteBuild(txnsBuilt + 1)}
    /\ UNCHANGED <<session, localStorage, initPc, invocations, keysMade,
                   funded, ledgerSeq, accepted, resetSince>>

----------------------------------------------------------------------------
(* onSign({signRes, authTxn, lastLedger}): useStellar.ts:101-115 *)

\* what a caller may pass: presign data prepareSign returned in this session,
\* or an envelope no prepareSign of this session returned
SignParams == presign \cup {NoPresign}

\* lines 110-114: catch logs, finally clears the flag; the promise resolves
SignFinally(s, outcome) ==
    /\ loadingSign' = FALSE
    /\ sign' = [sign EXCEPT ![s] = IdleSign]
    /\ signOutcome' = outcome

\* a hook that submits without looking at the keypair and the deployee
onSignUnchecked(s, p) ==
    /\ UNCHANGED others
    /\ initPc # "mount"
    /\ FreeSlot(sign, s)
    /\ loadingSign' = TRUE
    /\ sign' = [sign EXCEPT ![s] =
                   [pc |-> "handleVoteSend", deployee |-> deployee,
                    params |-> p, sends |-> 1]]
    /\ UNCHANGED signOutcome
    /\ UNCHANGED <<loadingDeployee, deployee, bundlerKey, loadingRegister,
                   contractData, localStorage, initPc, reg, registerOutcome,
                   presign, keysMade, funded, txnsBuilt, ledgerSeq, accepted,
                   resetSince>>

\* lines 101-107: the call, up to the await of handleVoteSend
onSign(s, p) ==
    /\ UNCHANGED others
    /\ initPc # "mount"
    /\ FreeSlot(sign, s)
    /\ IF ~Truthy(bundlerKey) \/ ~Truthy(deployee)
       THEN /\ loadingSign' = FALSE
            /\ signOutcome' = "failed"
            /\ UNCHANGED sign
       ELSE /\ loadingSign' = TRUE
            /\ sign' = [sign EXCEPT ![s] =
                           [pc |-> "handleVoteSend", deployee |-> deployee,
                            params |-> p, sends |-> 1]]
            /\ UNCHANGED signOutcome
    /\ UNCHANGED <<loadingDeployee, deployee, bundlerKey, loadingRegister,
                   contractData, localStorage, initPc, reg, registerOutcome,
                   presign, keysMade, funded, txnsBuilt, ledgerSeq, accepted,
                   resetSince>>

\* the ledger takes an envelope once, while it is valid, and never one that
\* handleVoteBuild did not produce (spec 4.5 finalize: TransactionExpired,
\* SubmissionRejected)
LedgerMayAccept(p) ==
    /\ p.authTxn \in Txns
    /\ p.authTxn \notin accepted
    /\ ledgerSeq <= p.lastLedger

\* the envelope is no longer valid: the ledger has advanced past lastLedger
Expired(p) == ledgerSeq > p.lastLedger

\* the error handleVoteSend rejects with, as onSign's catch logs it: the
\* expiry of an envelope handleVoteBuild produced, or any other rejection
SendError(p) ==
    IF p.authTxn \in Txns /\ Expired(p) THEN "expired" ELSE "failed"

\* a vote read that looks at the keypair only
onVotesAsksKeyOnly(bundler, d) == Truthy(bundler)

\* lines 47-53: onVotes asks the ledger only when it has both arguments
onVotesAsks(bundler, d) == Truthy(bundler) /\ Truthy(d)

\* what a function that ends without a return statement returns
Undefined == <<"undefined", 0>>

\* lines 47-49, 53: onVotes(bundlerKey, deployee) is called, by any caller
\* with what it has at hand; it awaits getVotes or returns at once
onVotes(bundler, d) ==
    /\ votes.pc # "getVotes"
    /\ votes' = IF onVotesAsks(bundler, d)
                THEN [pc |-> "getVotes", bundlerKey |-> bundler,
                      deployee |-> d, result |-> Null, queries |-> 1]
                ELSE [pc |-> "returned", bundlerKey |-> bundler,
                      deployee |-> d, result |-> Undefined, queries |-> 0]
    /\ UNCHANGED <<session, localStorage, initPc, invocations, presign,
                   ledger, resetSince, peer, debugApi>>

\* lines 49-51: getVotes settles with the ledger's tally, or rejects
onVotes_getVotes(read) ==
    /\ votes.pc = "getVotes"
    /\ votes' = IF read
                THEN [votes EXCEPT !.pc = "returned",
                                   !.result = <<"votes", Cardinality(accepted)>>]
                ELSE [votes EXCEPT !.pc = "threw",
                                   !.result = <<"error", 0>>]
    /\ UNCHANGED <<session, localStorage, initPc, invocations, presign,
                   ledger, resetSince, peer, debugApi>>

\* a hook that builds a new envelope and submits it when the submission of
\* an expired one was rejected
onSign_handleVoteSendRebuilds(s, sent) ==
    /\ UNCHANGED others
    /\ sign[s].pc = "handleVoteSend"
    /\ IF sent
       THEN /\ LedgerMayAccept(sign[s].params)
            /\ accepted' = accepted \cup {sign[s].params.authTxn}
            /\ sign' = [sign EXCEPT ![s].pc = "getVotes"]
            /\ UNCHANGED <<loadingSign, contractData, signOutcome,
                           presign, txnsBuilt>>
       ELSE IF Expired(sign[s].params) /\ txnsBuilt < MaxTxn
            THEN /\ txnsBuilt' = txnsBuilt + 1
                 /\ presign' = presign \cup {handleVoteBuild(txnsBuilt + 1)}
                 /\ sign' = [sign EXCEPT
                                ![s].params = handleVoteBuild(txnsBuilt + 1),
                                ![s].sends = @ + 1]
                 /\ UNCHANGED <<loadingSign, contractData, signOutcome,
                                accepted>>
            ELSE /\ SignFinally(s, SendError(sign[s].params))
                 /\ UNCHANGED <<accepted, contractData, presign, txnsBuilt>>
    /\ UNCHANGED <<loadingDeployee, deployee, bundlerKey, loadingRegister,
                   localStorage, initPc, reg, registerOutcome,
                   keysMade, funded, ledgerSeq, resetSince>>

\* lines 107-108: handleVoteSend settles; on success onVotes is called
onSign_handleVoteSend(s, sent) ==
    /\ UNCHANGED others
    /\ sign[s].pc = "handleVoteSend"
    /\ IF sent
       THEN /\ LedgerMayAccept(sign[s].params)
            /\ accepted' = accepted \cup {sign[s].params.authTxn}
            /\ IF onVotesAsks(bundlerKey, sign[s].deployee)
               THEN /\ sign' = [sign EXCEPT ![s].pc = "getVotes"]
                    /\ UNCHANGED <<loadingSign, contractData, signOutcome>>
               ELSE /\ contractData' = Null
                    /\ SignFinally(s, "ok")
       ELSE /\ SignFinally(s, SendError(sign[s].params))
            /\ UNCHANGED <<accepted, contractData>>
    /\ UNCHANGED <<loadingDeployee, deployee, bundlerKey, loadingRegister,
                   localStorage, initPc, reg, registerOutcome, presign,
                   keysMade, funded, txnsBuilt, ledgerSeq,
                   resetSince>>

\* a hook that stores whatever the vote read left it with, also on failure
onSign_onVotesClears(s, read) ==
    /\ UNCHANGED others
    /\ sign[s].pc = "getVotes"
    /\ IF read
       THEN /\ contractData' = <<"votes", Cardinality(accepted)>>
            /\ SignFinally(s, "ok")
       ELSE /\ SignFinally(s, "failed")
            /\ contractData' = Null
    /\ UNCHANGED <<loadingDeployee, deployee, bundlerKey, loadingRegister,
                   localStorage, initPc, reg, registerOutcome, presign,
                   ledger, resetSince>>

\* lines 49-51, 108-109: getVotes settles with the ledger's tally, or fails
onSign_onVotes(s, read) ==
    /\ UNCHANGED others
    /\ sign[s].pc = "getVotes"
    /\ IF read
       THEN /\ contractData' = <<"votes", Cardinality(accepted)>>
            /\ SignFinally(s, "ok")
       ELSE /\ SignFinally(s, "failed")
            /\ UNCHANGED contractData
    /\ UNCHANGED <<loadingDeployee, deployee, bundlerKey, loadingRegister,
                   localStorage, initPc, reg, registerOutcome, presign,
                   ledger, resetSince>>

----------------------------------------------------------------------------
(* The ledger closes a ledger: its sequence number advances. *)

LedgerAdvance ==
    /\ UNCHANGED others
    /\ ledgerSeq < MaxLedger
    /\ ledgerSeq' = ledgerSeq + 1
    /\ UNCHANGED <<session, localStorage, initPc, invocations, presign,
                   keysMade, funded, txnsBuilt, accepted,
                   resetSince>>

----------------------------------------------------------------------------

Next ==
    \/ init
    \/ \E granted \in BOOLEAN : init_friendbot(granted)
    \/ reset
    \/ Reload
    \/ \E s \in Slots, registerRes \in RegistrationResponses :
           onRegister(s, registerRes)
    \/ \E s \in Slots : onRegister_getPublicKeys(s)
    \/ \E s \in Slots, deployed \in BOOLEAN : onRegister_handleDeploy(s, deployed)
    \/ prepareSign
    \/ \E s \in Slots, p \in SignParams : onSign(s, p)
    \/ \E s \in Slots, sent \in BOOLEAN : onSign_handleVoteSend(s, sent)
    \/ \E s \in Slots, read \in BOOLEAN : onSign_onVotes(s, read)
    \/ LedgerAdvance

Spec == Init /\ [][Next]_vars

\* Initialisation, registration, reset and reload alone.  The signing
\* handlers write only loadingSign, contractData and their own records, which
\* none of these actions reads.
NextAccount ==
    \/ init
    \/ \E granted \in BOOLEAN : init_friendbot(granted)
    \/ reset
    \/ Reload
    \/ \E s \in Slots, registerRes \in RegistrationResponses :
           onRegister(s, registerRes)
    \/ \E s \in Slots : onRegister_getPublicKeys(s)
    \/ \E s \in Slots, deployed \in BOOLEAN : onRegister_handleDeploy(s, deployed)

SpecAccount == Init /\ [][NextAccount]_vars

\* One page load of the signing handlers: initialisation, one registration
\* at a time of one credential to provision the account, then prepareSign
\* and onSign against
\* the ledger.  The signing handlers read bundlerKey and deployee and never
\* the store, so reset and the store a reload starts from are left out.
NextVote ==
    \/ init
    \/ \E granted \in BOOLEAN : init_friendbot(granted)
    \/ onRegister(1, ValidResponse)
    \/ \E s \in Slots : onRegister_getPublicKeys(s)
    \/ \E s \in Slots, deployed \in BOOLEAN : onRegister_handleDeploy(s, deployed)
    \/ prepareSign
    \/ \E s \in Slots, p \in SignParams : onSign(s, p)
    \/ \E s \in Slots, sent \in BOOLEAN : onSign_handleVoteSend(s, sent)
    \/ \E s \in Slots, read \in BOOLEAN : onSign_onVotes(s, read)
    \/ LedgerAdvance

SpecVote == Init /\ [][NextVote]_vars

\* The store over page loads: initialisation, one registration at a time of
\* one credential, prepareSign, reset and reload.
NextStore ==
    \/ init
    \/ \E granted \in BOOLEAN : init_friendbot(granted)
    \/ reset
    \/ Reload
    \/ onRegister(1, ValidResponse)
    \/ \E s \in Slots : onRegister_getPublicKeys(s)
    \/ \E s \in Slots, deployed \in BOOLEAN : onRegister_handleDeploy(s, deployed)
    \/ prepareSign

SpecStore == Init /\ [][NextStore]_vars

----------------------------------------------------------------------------
(* The second instance of the hook.  SignOutButton calls useStellar()      *)
(* itself (part_001:8) instead of reading the provider's context, and the  *)
(* dashboard renders it once the provider's deployee is set (part_000:306).*)
(* It has its own state and its own mount effect over the same store.      *)

\* part_000:306: {deployee && <SignOutButton />}
peer_mount ==
    /\ Truthy(deployee)
    /\ peer.initPc = "unmounted"
    /\ peer' = [peer EXCEPT !.initPc = "mount"]
    /\ UNCHANGED <<session, localStorage, initPc, invocations, presign,
                   ledger, resetSince, votes, debugApi>>

\* lines 137-146 in the second instance
peer_InitFinally(kp) ==
    [initPc |-> "done", loadingDeployee |-> FALSE, bundlerKey |-> kp,
     deployee |-> IF Truthy(getStoredDeployee) THEN getStoredDeployee
                  ELSE peer.deployee]

\* lines 124-134 in the second instance, up to the await or to the end
peer_init ==
    /\ peer.initPc = "mount"
    /\ IF UseStored(getStoredBundler)
       THEN /\ peer' = IF fromSecretThrows(getStoredBundler)
                       THEN [peer EXCEPT !.initPc = "done",
                                         !.loadingDeployee = FALSE]
                       ELSE peer_InitFinally(fromSecret(getStoredBundler))
            /\ UNCHANGED <<localStorage, resetSince, keysMade, funded>>
       ELSE LET kp == Keypair(keysMade + 1) IN
            /\ keysMade < MaxKeys
            /\ keysMade' = keysMade + 1
            /\ \E wrote \in BOOLEAN :
                 IF wrote
                 THEN /\ localStorage' =
                             setItem(localStorage, "sp:bundler", secret(kp))
                      /\ resetSince' = FALSE
                      /\ funded' = funded \cup {kp}
                      /\ peer' = [peer EXCEPT !.initPc = "friendbot",
                                              !.bundlerKey = kp]
                 ELSE /\ peer' = [peer EXCEPT !.initPc = "done",
                                              !.loadingDeployee = FALSE,
                                              !.bundlerKey = kp]
                      /\ UNCHANGED <<localStorage, resetSince, funded>>
    /\ UNCHANGED <<session, initPc, invocations, presign, txnsBuilt,
                   ledgerSeq, accepted, votes, debugApi>>

\* line 134 settles in the second instance
peer_init_friendbot(granted) ==
    /\ peer.initPc = "friendbot"
    /\ peer' = IF granted
               THEN peer_InitFinally(peer.bundlerKey)
               ELSE [peer EXCEPT !.initPc = "done", !.loadingDeployee = FALSE]
    /\ UNCHANGED <<session, localStorage, initPc, invocations, presign,
                   ledger, resetSince, votes, debugApi>>

\* One page load with both instances: the provider's hook with one
\* registration at a time of one credential, reset, and the sign-out
\* button's hook.
NextShared ==
    \/ init
    \/ \E granted \in BOOLEAN : init_friendbot(granted)
    \/ reset
    \/ onRegister(1, ValidResponse)
    \/ \E s \in Slots : onRegister_getPublicKeys(s)
    \/ \E s \in Slots, deployed \in BOOLEAN : onRegister_handleDeploy(s, deployed)
    \/ peer_mount
    \/ peer_init
    \/ \E granted \in BOOLEAN : peer_init_friendbot(granted)

SpecShared == Init /\ [][NextShared]_vars

\* One page load of the account handlers: initialisation, registration and
\* reset, from mount until the page is left.
NextPage ==
    \/ init
    \/ \E granted \in BOOLEAN : init_friendbot(granted)
    \/ reset
    \/ \E s \in Slots,
          registerRes \in RegistrationResponses \cup {NoSaltResponse} :
           onRegister(s, registerRes)
    \/ \E s \in Slots : onRegister_getPublicKeys(s)
    \/ \E s \in Slots, deployed \in BOOLEAN : onRegister_handleDeploy(s, deployed)

SpecPage == Init /\ [][NextPage]_vars

\* The mount effect runs once the component has rendered (line 149), and
\* the faucet request it awaits (line 134) settles one way or the other.
SpecPageFair ==
    /\ SpecPage
    /\ WF_vars(init)
    /\ WF_vars(\E granted \in BOOLEAN : init_friendbot(granted))

\* The vote read on its own: one page load up to a registered account, and
\* onVotes called with the session's keypair and deployee or without them.
NextRead ==
    \/ init
    \/ \E granted \in BOOLEAN : init_friendbot(granted)
    \/ onRegister(1, ValidResponse)
    \/ \E s \in Slots : onRegister_getPublicKeys(s)
    \/ \E s \in Slots, deployed \in BOOLEAN : onRegister_handleDeploy(s, deployed)
    \/ \E bundler \in {Null, bundlerKey}, d \in {Null, deployee} :
           onVotes(bundler, d)
    \/ \E read \in BOOLEAN : onVotes_getVotes(read)

SpecRead == Init /\ [][NextRead]_vars

----------------------------------------------------------------------------
(* The key-value mock (src/unnamed/part_002) and the two debug routes      *)
(* (src/src/app/api/redis-debug/route.ts, src/unnamed/part_003).  The      *)
(* mock's Map is a set of entries with distinct keys; an entry's expiry is *)
(* <<"ms", t>> or Null.  Every method of the mock is synchronous.          *)

\* the keys a request or a caller of the mock may name
TEST_KEY == "redis_test:persistence_check"
MockKeys == {TEST_KEY, "challenge"}

\* route.ts:27,39: a request without ?key=, or with an empty one
NoKey == ""

\* the values of ENV.ENV
Envs == {"development", "production", "test"}

\* part_003:70: the test value lives five minutes
TestTtlSeconds == 300

\* the instants at which the server is observed: up to MaxTicks half
\* seconds after its start, and the same again once the test value's
\* lifetime has passed
Instants ==
    {a * 500 + b * (TestTtlSeconds * 1000) : a \in 0..MaxTicks, b \in 0..1}

NoExpiry == Null
Ex(seconds) == <<"EX", seconds>>

has(st, key) == \E i \in st : i.key = key
item(st, key) == CHOOSE i \in st : i.key = key

\* a purge that keeps an entry alive at the very instant it expires
removeExpiredKeysLate(st, t) ==
    {i \in st : ~(i.expiry # Null /\ i.expiry[2] < t)}

\* part_002:182-198
removeExpiredKeys(st, t) ==
    {i \in st : ~(i.expiry # Null /\ i.expiry[2] <= t)}

\* part_002:184-197: the keys _removeExpiredKeys deletes, and logs
expiredKeys(st, t) == {i.key : i \in st \ removeExpiredKeys(st, t)}

\* part_002:45-88: the Map after set(key, value) or set(key, value, "EX", n)
set(st, t, key, value, ex) ==
    LET expiry == IF ex = NoExpiry THEN Null
                  ELSE <<"ms", t + ex[2] * 1000>>
    IN  {i \in st : i.key # key}
            \cup {[key |-> key, value |-> value, expiry |-> expiry]}

\* part_002:93-115: get purges, then looks the key up
get(st, t, key) ==
    LET live == removeExpiredKeys(st, t)
    IN  IF has(live, key) THEN item(live, key).value ELSE Null

\* part_002:141-150: exists purges, then answers 1 or 0
exists(st, t, key) == IF has(removeExpiredKeys(st, t), key) THEN 1 ELSE 0

\* part_002:155-164: keys purges, then lists every key of the Map
keys(st, t) == {i.key : i \in removeExpiredKeys(st, t)}

\* part_002:117-136: del does not purge
del(st, key) == {i \in st : i.key # key}
delResult(st, key) == IF has(st, key) THEN 1 ELSE 0

\* part_002:169-177
flushall(st) == {}

\* part_002:203-212: _getState lists every entry of the Map
getState(st) == {i.key : i \in st}

\* part_002:217-241: ttl purges, then answers -2, -1 or the seconds left
ttl(st, t, key) ==
    LET live == removeExpiredKeys(st, t)
    IN  IF ~has(live, key) THEN -2
        ELSE IF item(live, key).expiry = Null THEN -1
        ELSE LET left == (item(live, key).expiry[2] - t) \div 1000
             IN  IF left > 0 THEN left ELSE 0

\* a route that serves every environment but production
DevOnlyExceptTest(e) == e \in {"development", "test"}

\* route.ts:15, part_003:16,55,94: the guard of every debug handler
DevOnly(e) == e = "development"

Reply(status, kind) == [NoHttp EXCEPT !.status = status, !.kind = kind]

\* route.ts:16-21, part_003:17-22
Forbidden == Reply(403, "error")

\* route.ts:13-76: GET /api/redis-debug, with ?action= and ?key=
redisDebugGET(action, key) ==
    /\ response = NoHttp
    /\ IF ~DevOnly(env)
       THEN /\ response' = Forbidden
            /\ UNCHANGED storage
       ELSE IF action = "flush"
       THEN /\ storage' = flushall(storage)
            /\ response' = Reply(200, "flushed")
       ELSE IF key # NoKey
       THEN /\ storage' = removeExpiredKeys(storage, now)
            /\ response' = [Reply(200, "key") EXCEPT
                                !.value = get(storage, now, key),
                                !.ttl = ttl(storage, now, key)]
       ELSE /\ UNCHANGED storage
            /\ response' = [Reply(200, "state") EXCEPT
                                !.listed = getState(storage),
                                !.totalKeys = Cardinality(getState(storage))]
    /\ UNCHANGED <<browser, call, env, now>>

\* part_003:14-51: GET /api/redis-test
redisTestGET ==
    /\ response = NoHttp
    /\ IF ~DevOnly(env)
       THEN /\ response' = Forbidden
            /\ UNCHANGED storage
       ELSE /\ storage' = removeExpiredKeys(storage, now)
            /\ response' = [Reply(200, "test") EXCEPT
                                !.value = get(storage, now, TEST_KEY),
                                !.totalKeys =
                                    Cardinality(removeExpiredKeys(storage, now))]
    /\ UNCHANGED <<browser, call, env, now>>

\* part_003:53-90: POST /api/redis-test
redisTestPOST ==
    /\ response = NoHttp
    /\ IF ~DevOnly(env)
       THEN /\ response' = Forbidden
            /\ UNCHANGED storage
       ELSE /\ storage' = set(storage, now, TEST_KEY, <<"at", now>>,
                              Ex(TestTtlSeconds))
            /\ response' = [Reply(200, "set") EXCEPT
                                !.value = <<"at", now>>,
                                !.totalKeys = Cardinality(storage')]
    /\ UNCHANGED <<browser, call, env, now>>

\* part_003:92-121: DELETE /api/redis-test
redisTestDELETE ==
    /\ response = NoHttp
    /\ IF ~DevOnly(env)
       THEN /\ response' = Forbidden
            /\ UNCHANGED storage
       ELSE /\ storage' = del(storage, TEST_KEY)
            /\ response' = Reply(200, "deleted")
    /\ UNCHANGED <<browser, call, env, now>>

\* the handler has returned its NextResponse; the next request may come
Respond ==
    /\ response # NoHttp
    /\ response' = NoHttp
    /\ UNCHANGED <<browser, call, env, storage, now>>

\* part_002:245: any importer of redisMock stores a value, with or without EX
redisMock_set(key, ex) ==
    /\ storage' = set(storage, now, key, <<"v", 1>>, ex)
    /\ UNCHANGED <<browser, call, env, now, response>>

\* the seconds a caller of set passes with "EX"
ExSeconds == {1}

\* part_002:93-115: a caller awaits redisMock.get(key)
redisMock_get(key) ==
    /\ call = NoCall
    /\ storage' = removeExpiredKeys(storage, now)
    /\ call' = [NoCall EXCEPT !.op = "get", !.key = key,
                              !.removed = expiredKeys(storage, now),
                              !.value = get(storage, now, key)]
    /\ UNCHANGED <<browser, env, now, response>>

\* part_002:141-150: a caller awaits redisMock.exists(key)
redisMock_exists(key) ==
    /\ call = NoCall
    /\ storage' = removeExpiredKeys(storage, now)
    /\ call' = [NoCall EXCEPT !.op = "exists", !.key = key,
                              !.removed = expiredKeys(storage, now),
                              !.number = exists(storage, now, key)]
    /\ UNCHANGED <<browser, env, now, response>>

\* part_002:155-164: a caller awaits redisMock.keys("*")
redisMock_keys ==
    /\ call = NoCall
    /\ storage' = removeExpiredKeys(storage, now)
    /\ call' = [NoCall EXCEPT !.op = "keys",
                              !.removed = expiredKeys(storage, now),
                              !.listed = keys(storage, now)]
    /\ UNCHANGED <<browser, env, now, response>>

\* part_002:217-241: a caller awaits redisMock.ttl(key)
redisMock_ttl(key) ==
    /\ call = NoCall
    /\ storage' = removeExpiredKeys(storage, now)
    /\ call' = [NoCall EXCEPT !.op = "ttl", !.key = key,
                              !.removed = expiredKeys(storage, now),
                              !.number = ttl(storage, now, key)]
    /\ UNCHANGED <<browser, env, now, response>>

\* part_002:120-136: a caller awaits redisMock.del(key)
redisMock_del(key) ==
    /\ call = NoCall
    /\ storage' = del(storage, key)
    /\ call' = [NoCall EXCEPT !.op = "del", !.key = key,
                              !.number = delResult(storage, key)]
    /\ UNCHANGED <<browser, env, now, response>>

\* the caller has taken the result
Return ==
    /\ call # NoCall
    /\ call' = NoCall
    /\ UNCHANGED <<browser, env, storage, now, response>>

\* the server's clock advances to a later instant
Tick(t) ==
    /\ t > now
    /\ now' = t
    /\ UNCHANGED <<browser, call, env, storage, response>>

\* a server started in any environment, its mock empty (part_002:23-24)
InitDebug ==
    /\ HookInit
    /\ peer = Unmounted
    /\ votes = IdleVotes
    /\ env \in Envs
    /\ storage = {}
    /\ now = 0
    /\ response = NoHttp
    /\ call = NoCall

NextDebug ==
    \/ \E action \in {"none", "flush"}, key \in MockKeys \cup {NoKey} :
           redisDebugGET(action, key)
    \/ redisTestGET
    \/ redisTestPOST
    \/ redisTestDELETE
    \/ Respond
    \/ \E key \in MockKeys, ex \in {NoExpiry} \cup {Ex(n) : n \in ExSeconds} :
           redisMock_set(key, ex)
    \/ \E t \in Instants : Tick(t)

SpecDebug == InitDebug /\ [][NextDebug]_vars

\* The mock and its callers: every method of RedisMock, called through the
\* exported instance, and the clock.
NextMock ==
    \/ \E key \in MockKeys, ex \in {NoExpiry} \cup {Ex(n) : n \in ExSeconds} :
           redisMock_set(key, ex)
    \/ \E key \in MockKeys : redisMock_get(key)
    \/ \E key \in MockKeys : redisMock_exists(key)
    \/ redisMock_keys
    \/ \E key \in MockKeys : redisMock_ttl(key)
    \/ \E key \in MockKeys : redisMock_del(key)
    \/ Return
    \/ \E t \in Instants : Tick(t)

SpecMock == Init /\ [][NextMock]_vars

----------------------------------------------------------------------------
(* Claims about registration, initialisation and the store: SpecAccount.   *)

\* C1: of the onRegister invocations that are in flight together at most one
\* issues a deployment call: none calls handleDeploy when an invocation it
\* overlapped with has called it.
C1_OverlappingRegisterDeploysOnce ==
    \A s \in Slots : reg[s].pc = "handleDeploy" => ~reg[s].sawDeploy

\* C5: onRegister called while a deployee is present is a no-op: it does not
\* go in flight (so it calls neither getPublicKeys nor handleDeploy), and it
\* leaves the store, the deployee and every invocation as they were.
C5_RegisterWithDeployeeIsNoOp ==
    [][Truthy(deployee) =>
          /\ \A s \in Slots : reg[s].pc = "idle" => reg'[s].pc = "idle"
          /\ (registerOutcome' = "skipped" /\ registerOutcome # "skipped") =>
                 /\ localStorage' = localStorage
                 /\ deployee' = deployee
                 /\ reg' = reg
                 /\ loadingRegister' = loadingRegister]_vars

C5_Witness ==
    /\ Truthy(deployee)
    /\ registerOutcome = "skipped"
    /\ getStoredDeployee = deployee

\* the mount effect has run its synchronous part in this step
InitRuns == initPc = "mount" /\ initPc' # "mount"

\* C6: an initialisation that finds a persisted seed rebuilds the keypair of
\* that seed (so its public key is the one funded before), makes no new
\* keypair, leaves the store as it is and calls no faucet.
C6_StoredSecretIsReused ==
    [][(InitRuns /\ Truthy(getStoredBundler)
                 /\ ~fromSecretThrows(getStoredBundler)) =>
          /\ secret(bundlerKey') = getStoredBundler
          /\ publicKey(bundlerKey') = <<"G", getStoredBundler[2]>>
          /\ keysMade' = keysMade
          /\ localStorage' = localStorage
          /\ funded' = funded
          /\ initPc' = "done"]_vars

\* a later page load that found the seed and the deployee of an earlier one
C6_Witness ==
    /\ initPc = "done"
    /\ registerOutcome = "none"
    /\ Truthy(deployee)
    /\ Truthy(bundlerKey)
    /\ secret(bundlerKey) = getStoredBundler
    /\ bundlerKey \in funded

\* the faucet is called in this step, for the keypair then in memory
CallsFaucet == initPc # "friendbot" /\ initPc' = "friendbot"

\* C7 as stated: whenever the faucet has been called for a keypair, the store
\* holds that keypair's seed.
C7_FundedKeyIsStored ==
    \A kp \in funded : getStoredBundler = secret(kp)

\* C7, amended: the faucet is called only in a step after which the store
\* holds the new keypair's seed, never twice for a keypair, and at once when
\* a new seed is persisted; and the store holds the seed of the keypair
\* funded last in every later state unless reset() has run since.
C7_PersistedBeforeFunding ==
    /\ [][CallsFaucet =>
              /\ ~Truthy(getStoredBundler)
              /\ localStorage'["sp:bundler"] = secret(bundlerKey')
              /\ bundlerKey' \notin funded
              /\ funded' = funded \cup {bundlerKey'}]_vars
    /\ [][funded' # funded => CallsFaucet]_vars
    /\ [][(InitRuns /\ localStorage'["sp:bundler"] # getStoredBundler)
              => CallsFaucet]_vars
    /\ []((Keypair(keysMade) \in funded /\ ~resetSince) =>
              getStoredBundler = secret(Keypair(keysMade)))

C7_Witness ==
    /\ initPc = "friendbot"
    /\ getStoredBundler = secret(bundlerKey)
    /\ bundlerKey \in funded
    /\ ~resetSince

\* C8: when the faucet call settles, refused or not, init goes on: loading
\* ends, the keypair is in memory, the store keeps what it held, and a
\* deployee found in the store is the session's deployee.
C8_FundingFailureDoesNotBlock ==
    [][(initPc = "friendbot" /\ initPc' = "done") =>
          /\ loadingDeployee' = FALSE
          /\ Truthy(bundlerKey')
          /\ localStorage' = localStorage
          /\ Truthy(getStoredDeployee) => deployee' = getStoredDeployee]_vars

\* C9: a deployee that is set, in memory or in the store, never changes to
\* another address.
C9_DeployeeImmutable ==
    [][/\ (Truthy(deployee) /\ Truthy(deployee')) => deployee' = deployee
       /\ (Truthy(getStoredDeployee) /\ Truthy(localStorage'["sp:deployee"]))
              => localStorage'["sp:deployee"] = getStoredDeployee]_vars

\* C10: the bundler key in memory is never replaced by another key, and the
\* stored seed is never overwritten by another seed; a new seed is written
\* only to a store that holds none (at first, or after reset()).
C10_OneBundlerKey ==
    [][/\ (Truthy(bundlerKey) /\ Truthy(bundlerKey'))
              => bundlerKey' = bundlerKey
       /\ (Truthy(getStoredBundler) /\ Truthy(localStorage'["sp:bundler"]))
              => localStorage'["sp:bundler"] = getStoredBundler]_vars

\* a second keypair, made by a page load that found no seed in the store
C10_Witness ==
    /\ initPc = "done"
    /\ keysMade = 2
    /\ bundlerKey = Keypair(2)
    /\ getStoredBundler = secret(bundlerKey)

\* the onRegister invocation in slot s returns in this step
RegisterReturns(s) ==
    reg[s].pc # "idle" /\ reg'[s].pc = "idle" /\ initPc' = initPc

\* the address the invocation in slot s asked the ledger to deploy
DeployedAddress(s) ==
    LET derived == getPublicKeys(reg[s].registerRes) IN
    handleDeploy(bundlerKey, derived.contractSalt, derived.publicKey)

\* C11: an onRegister invocation that fails leaves the deployee in memory
\* and in the store as they were; one that succeeds returns from a
\* deployment call and sets both to the address deployed; the stored
\* deployee is written by nothing else, and the deployee in memory only by
\* that and by loading the stored one.
C11_DeployeeOnlyOnSuccess ==
    [][/\ \A s \in Slots :
              (RegisterReturns(s) /\ registerOutcome' = "failed") =>
                  /\ deployee' = deployee
                  /\ localStorage'["sp:deployee"] = getStoredDeployee
       /\ \A s \in Slots :
              (RegisterReturns(s) /\ registerOutcome' = "ok") =>
                  /\ reg[s].pc = "handleDeploy"
                  /\ deployee' = DeployedAddress(s)
                  /\ localStorage'["sp:deployee"] = DeployedAddress(s)
       /\ (localStorage'["sp:deployee"] # getStoredDeployee
              /\ Truthy(localStorage'["sp:deployee"])) =>
              \E s \in Slots : RegisterReturns(s) /\ registerOutcome' = "ok"
       /\ (deployee' # deployee /\ Truthy(deployee')) =>
              \/ \E s \in Slots : RegisterReturns(s) /\ registerOutcome' = "ok"
              \/ deployee' = getStoredDeployee]_vars

\* the second credential's registration failed after its derivation went
\* well: the ledger rejected the deployment or the deployee was not stored
C11_Witness ==
    /\ registerOutcome = "failed"
    /\ InFlight(reg) = {}
    /\ Truthy(bundlerKey)
    /\ localStorage["sp:id"] = <<"id", 2>>
    /\ deployee = Null
    /\ getStoredDeployee = Null

\* C12: a step of reset() leaves the session without deployee, without
\* bundler key and without vote tally.
C12_ResetClearsSession ==
    [][reset => /\ deployee' = Null
                /\ bundlerKey' = Null
                /\ contractData' = Null]_vars

\* C13: a step of reset() leaves the store without seed, without deployee
\* and without credential identifier, whatever it held.
C13_ResetEmptiesStore ==
    [][reset => /\ localStorage'["sp:bundler"] = Null
                /\ localStorage'["sp:deployee"] = Null
                /\ localStorage'["sp:id"] = Null]_vars

\* reset() has emptied a store that held the seed of a funded keypair, a
\* deployee and a credential identifier
C13_Witness ==
    /\ resetSince
    /\ localStorage = EmptyStorage
    /\ Truthy(deployee)
    /\ bundlerKey \in funded
    /\ registerOutcome = "ok"

----------------------------------------------------------------------------
(* Claims about signing: SpecVote.                                         *)

\* C2: two onSign invocations never both have a submission in flight.
C2_OneSubmissionInFlight ==
    \A s, t \in Slots :
        (sign[s].pc = "handleVoteSend" /\ sign[t].pc = "handleVoteSend")
            => s = t

\* the onSign invocation in slot s calls handleVoteSend in this step
Submits(s) == sign[s].pc = "idle" /\ sign'[s].pc = "handleVoteSend"

\* C3: once an onSign with some presign data has succeeded, no later onSign
\* issues a submission of that presign data.
C3_PresignIsSingleUse ==
    [][\A s \in Slots :
          (Submits(s) /\ InFlight(sign) = {} /\ signOutcome = "ok") =>
              sign'[s].params.authTxn \notin accepted]_vars

\* C4: a submission is issued only for presign data that a prepareSign of
\* this session returned.
C4_SignNeedsPrepare ==
    \A s \in Slots :
        sign[s].pc = "handleVoteSend" => sign[s].params \in presign

\* prepareSign calls handleVoteBuild and returns presign data in this step
BuildsTransaction == txnsBuilt' # txnsBuilt

\* C14: prepareSign issues a build call and returns presign data only when
\* initialisation has finished (the session is Ready) and a deployee is
\* present.
C14_PrepareNeedsReadyAccount ==
    [][BuildsTransaction =>
          /\ Truthy(deployee)
          /\ initPc = "done"
          /\ ~loadingDeployee]_vars

\* C15: the caller of an onRegister or onSign invocation that failed gets a
\* settlement that differs from the one a successful invocation gets.
C15_FailureReachesCaller ==
    /\ registerOutcome = "failed" =>
           Settlement(registerOutcome) # Settlement("ok")
    /\ signOutcome \in {"failed", "expired"} =>
           Settlement(signOutcome) # Settlement("ok")

\* the onSign invocation in slot s returns in this step
SignReturns(s) ==
    sign[s].pc # "idle" /\ sign'[s].pc = "idle" /\ initPc' = initPc

\* C16: an onSign invocation that fails, at the submission or at the vote
\* read, leaves the tally as it was; one that succeeds has had its
\* submission accepted and its votes read, and sets the tally to the ledger's
\* tally at that read; nothing else changes the tally.
C16_TallyOnlyOnSuccess ==
    [][/\ \A s \in Slots :
              (SignReturns(s) /\ signOutcome' \in {"failed", "expired"}) =>
                  contractData' = contractData
       /\ \A s \in Slots :
              (SignReturns(s) /\ signOutcome' = "ok") =>
                  /\ sign[s].pc = "getVotes"
                  /\ sign[s].params.authTxn \in accepted
                  /\ contractData' = <<"votes", Cardinality(accepted')>>
       /\ contractData' # contractData =>
              \E s \in Slots : SignReturns(s) /\ signOutcome' = "ok"]_vars

\* an onSign failed after an earlier one had read a tally of one vote
C16_Witness ==
    /\ signOutcome = "failed"
    /\ InFlight(sign) = {}
    /\ contractData = <<"votes", 1>>

\* C17: the submission of presign data the ledger has advanced past fails:
\* when it settles the invocation returns with the expiry error, nothing is
\* accepted, no envelope is built and nothing is submitted again.
C17_ExpiredSubmissionFails ==
    [][\A s \in Slots :
          (sign[s].pc = "handleVoteSend" /\ sign[s].params \in presign
              /\ Expired(sign[s].params)
              /\ sign'[s] # sign[s] /\ initPc' = initPc) =>
              /\ sign'[s].pc = "idle"
              /\ signOutcome' = "expired"
              /\ accepted' = accepted
              /\ txnsBuilt' = txnsBuilt
              /\ presign' = presign
              /\ contractData' = contractData]_vars

\* the last onSign to return failed on an expired envelope, and the
\* submission of an onSign called after it, with presign data a later
\* prepareSign returned, has been accepted
C17_Witness ==
    /\ signOutcome = "expired"
    /\ \E s \in Slots :
           /\ sign[s].pc = "getVotes"
           /\ sign[s].params \in presign
           /\ sign[s].params.lastLedger = ledgerSeq
           /\ accepted = {sign[s].params.authTxn}
    /\ \E p \in presign : Expired(p) /\ p.authTxn \notin accepted

\* C18: no invocation of onRegister calls handleDeploy more than once and
\* no invocation of onSign calls handleVoteSend more than once.
C18_NoAutomaticRetry ==
    \A s \in Slots : reg[s].deploys <= 1 /\ sign[s].sends <= 1

\* the ledger rejected the submission of an envelope, the one thing it has
\* been sent, and the invocation has returned
C18_Witness ==
    /\ signOutcome = "expired"
    /\ InFlight(sign) = {}
    /\ accepted = {}
    /\ registerOutcome = "ok"

----------------------------------------------------------------------------
(* Claims about failures of the store. *)

\* C19 (SpecAccount): an initialisation that makes a new keypair and does
\* not get its seed into the store does not end with the session loaded and
\* that keypair in memory.
C19_WriteFailureIsFatal ==
    [][(InitRuns /\ keysMade' # keysMade
           /\ localStorage'["sp:bundler"] # secret(Keypair(keysMade'))) =>
          ~(initPc' = "done" /\ ~loadingDeployee'
               /\ bundlerKey' = Keypair(keysMade'))]_vars

\* the store holds something under sp:bundler that is no seed
CorruptSeedStored ==
    Truthy(getStoredBundler) /\ fromSecretThrows(getStoredBundler)

\* C20 (SpecStore): while the store holds a malformed seed, initialisation
\* ends without a keypair; no keypair is made, no faucet is called, no
\* deployment and no build call is issued, and the stored seed is replaced
\* by nothing but reset().
C20_MalformedSeedIsFatal ==
    /\ []((CorruptSeedStored /\ initPc # "mount") =>
              /\ initPc = "done"
              /\ ~loadingDeployee
              /\ bundlerKey = Null
              /\ \A s \in Slots :
                     reg[s].pc # "handleDeploy" /\ reg[s].deploys = 0)
    /\ [][CorruptSeedStored =>
              /\ keysMade' = keysMade
              /\ funded' = funded
              /\ txnsBuilt' = txnsBuilt
              /\ (localStorage'["sp:bundler"] = getStoredBundler \/ reset)]_vars

\* over a malformed seed, initialisation has ended and an onRegister has
\* failed after it had stored the credential identifier
C20_Witness ==
    /\ CorruptSeedStored
    /\ initPc = "done"
    /\ registerOutcome = "failed"
    /\ InFlight(reg) = {}
    /\ localStorage["sp:id"] = <<"id", 1>>

----------------------------------------------------------------------------
(* Claims about the vote read: SpecRead. *)

\* C21: a call of onVotes without a keypair or without a deployee returns,
\* does not throw, returns nothing and has not asked the ledger; the ledger
\* is asked only by a call that has both.
C21_VoteReadWithoutInputs ==
    /\ (votes.pc # "idle"
           /\ ~(Truthy(votes.bundlerKey) /\ Truthy(votes.deployee))) =>
           /\ votes.pc = "returned"
           /\ votes.result = Undefined
           /\ votes.queries = 0
    /\ votes.queries > 0 =>
           Truthy(votes.bundlerKey) /\ Truthy(votes.deployee)

\* onVotes was called with the keypair and without a deployee
C21_Witness ==
    /\ votes.pc = "returned"
    /\ Truthy(votes.bundlerKey)
    /\ votes.deployee = Null
    /\ votes.result = Undefined

----------------------------------------------------------------------------
(* Claims about the debug routes: SpecDebug. *)

\* C22: outside development mode every request to a debug route (GET
\* /api/redis-debug with or without action=flush or key=X, GET, POST and
\* DELETE /api/redis-test) is answered 403 with an error body that carries
\* nothing of the mock, and leaves the mock's storage as it was.
C22_DebugOnlyInDevelopment ==
    [][(env # "development" /\ response = NoHttp /\ response' # NoHttp) =>
          /\ response' = Forbidden
          /\ response'.status = 403
          /\ storage' = storage]_vars

\* a production server has refused a request while its mock held an entry
\* that a lookup would have purged
C22_Witness ==
    /\ env = "production"
    /\ response.status = 403
    /\ \E i \in storage : i.expiry # Null /\ i.expiry[2] <= now

----------------------------------------------------------------------------
(* Claims about one page load: SpecPage. *)

\* C23: a failed onRegister leaves the store as it was before the call.
\* The credential identifier and the deployee are then written only by
\* one and the same successful call and removed together by reset, so
\* once every invocation has returned a stored credential identifier
\* comes with a stored deployee.
C23_FailedRegisterLeavesStore ==
    (InFlight(reg) = {} /\ Truthy(localStorage["sp:id"])) =>
        Truthy(getStoredDeployee)

\* derivation gave no public key or no contract salt for the response
DerivationIncomplete(registerRes) ==
    \/ ~Truthy(getPublicKeys(registerRes).publicKey)
    \/ ~Truthy(getPublicKeys(registerRes).contractSalt)

----------------------------------------------------------------------------
(* Claims about the two instances of the hook: SpecShared. *)

\* C26: when both instances have initialised over the shared store, one
\* keypair has been generated and funded and both instances hold it.
C26_OneKeypairForBothInstances ==
    (initPc = "done" /\ peer.initPc = "done") =>
        /\ keysMade <= 1
        /\ Cardinality(funded) <= 1
        /\ peer.bundlerKey = bundlerKey

----------------------------------------------------------------------------
(* Further claims about the store: SpecAccount. *)

\* C27: in every reachable state a deployee in the store comes with a
\* bundler secret in the store.
C27_StoredDeployeeHasStoredKey ==
    Truthy(getStoredDeployee) => Truthy(getStoredBundler)

----------------------------------------------------------------------------
(* Further claims about signing: SpecVote. *)

\* C28: handleVoteSend is called only with a bundler key and a deployee in
\* memory, so is every invocation that is past its checks; while either is
\* absent a step starts no submission and no vote read, the ledger accepts
\* nothing and the tally shown stays as it is.
C28_NoSubmissionWithoutAccount ==
    /\ [](\A s \in Slots :
             sign[s].pc # "idle" =>
                 Truthy(bundlerKey) /\ Truthy(sign[s].deployee))
    /\ [][\A s \in Slots :
             Submits(s) => Truthy(bundlerKey) /\ Truthy(deployee)]_vars
    /\ [][(~Truthy(bundlerKey) \/ ~Truthy(deployee)) =>
             /\ sign' = sign
             /\ accepted' = accepted
             /\ contractData' = contractData]_vars

\* onSign was called with a keypair and without a deployee, and has failed
C28_Witness ==
    /\ signOutcome = "failed"
    /\ Truthy(bundlerKey)
    /\ deployee = Null
    /\ InFlight(sign) = {}
    /\ ~loadingSign
    /\ contractData = Null
    /\ accepted = {}

\* C29: loadingRegister is true whenever an onRegister invocation past its
\* deployee guard is in flight, and loadingSign is true whenever an onSign
\* invocation is in flight.
C29_FlagsTrackInFlightWork ==
    /\ InFlight(reg) # {} => loadingRegister
    /\ InFlight(sign) # {} => loadingSign

\* a step of an onSign invocation: its call, a settlement, its return
SignSteps == sign' # sign \/ signOutcome' # signOutcome

\* C30: a prepareSign that builds a transaction changes no session field
\* and does not write the store; a step of onSign does not write the store
\* and changes no session field but loadingSign and the tally.
C30_SigningFrame ==
    /\ [][BuildsTransaction => UNCHANGED <<session, localStorage>>]_vars
    /\ [][SignSteps =>
             UNCHANGED <<localStorage, deployee, bundlerKey, loadingDeployee,
                         loadingRegister>>]_vars

\* a prepared vote was sent and read back, the account still as registered
C30_Witness ==
    /\ signOutcome = "ok"
    /\ contractData = <<"votes", 1>>
    /\ txnsBuilt >= 1
    /\ Truthy(deployee)
    /\ getStoredDeployee = deployee
    /\ getStoredBundler = secret(bundlerKey)

----------------------------------------------------------------------------
(* Claims about the key-value mock: SpecMock. *)

\* the entry of the key is past its expiry time, or at it
Lapsed(key) ==
    /\ has(storage, key)
    /\ item(storage, key).expiry # Null
    /\ item(storage, key).expiry[2] <= now

\* the entry of the key was set without EX
Unlimited(key) == has(storage, key) /\ item(storage, key).expiry = Null

\* a method of the mock is called and returns
Calls(op, key) ==
    call = NoCall /\ call'.op = op /\ (op = "keys" \/ call'.key = key)

\* C31: set with EX n stores the expiry time now + n seconds and set
\* without EX stores none; a lookup made at or after the expiry time of a
\* key reports it absent (get null, exists 0, keys without it, ttl -2); a
\* lookup of a key set without EX finds it at any time, its ttl is -1, and
\* neither a lookup nor the passing of time removes it.
C31_ExpiredKeysAreAbsent ==
    /\ [][\A i \in storage' \ storage :
             \/ i.expiry = Null
             \/ \E n \in ExSeconds : i.expiry = <<"ms", now + n * 1000>>]_vars
    /\ [][\A key \in MockKeys :
             Lapsed(key) =>
                 /\ Calls("get", key) => call'.value = Null
                 /\ Calls("exists", key) => call'.number = 0
                 /\ Calls("keys", key) => key \notin call'.listed
                 /\ Calls("ttl", key) => call'.number = -2]_vars
    /\ [][\A key \in MockKeys :
             Unlimited(key) =>
                 /\ Calls("get", key) =>
                        call'.value = item(storage, key).value
                 /\ Calls("exists", key) => call'.number = 1
                 /\ Calls("keys", key) => key \in call'.listed
                 /\ Calls("ttl", key) => call'.number = -1
                 /\ ((call' # call /\ call'.op # "del") \/ now' # now) =>
                        Unlimited(key)']_vars

\* ttl was asked for the test key at the very instant its second had
\* passed: the call purged the key and answered -2
C31_Witness ==
    /\ call.op = "ttl"
    /\ call.key = TEST_KEY
    /\ TEST_KEY \in call.removed
    /\ call.number = -2
    /\ now = 1000

\* C32: del(key) returns 1 exactly when a get(key) made immediately before
\* it would have returned a value, and 0 otherwise.
C32_DelAgreesWithGet ==
    [][\A key \in MockKeys :
          Calls("del", key) =>
              (call'.number = 1 <=> get(storage, now, key) # Null)]_vars

\* C33: the state the no-parameter GET /api/redis-debug reports lists the
\* keys that keys() would return at that moment and counts them; it lists
\* no key whose expiry time has passed.
C33_ReportedStateIsLive ==
    [][(response = NoHttp /\ response'.kind = "state") =>
          /\ response'.listed = keys(storage, now)
          /\ response'.totalKeys = Cardinality(keys(storage, now))
          /\ \A key \in MockKeys :
                 Lapsed(key) => key \notin response'.listed]_vars

====
